---- MODULE Spec2Model ----
(***************************************************************************)
(* CommandRunner of src/command/dev/command.rs: a registry of named        *)
(* background processes (spawn), the endpoint-discovery poll loop          *)
(* (spawn_and_find_url) and the teardown pass (kill_tasks).                *)
(*                                                                         *)
(* A command line is a sequence of one-character strings, so that          *)
(* command.split(' ') is computed, not assumed.  Time is counted in whole  *)
(* seconds since `now = Instant::now()` (line 76).                         *)
(***************************************************************************)
EXTENDS Integers, Sequences, FiniteSets, TLC

\* ---- bounds of the model ------------------------------------------------
MaxLen == 3            \* longest command line given to spawn, in characters
MaxFindLen == 1        \* longest command line given to spawn_and_find_url
MaxIterSecs == 2       \* longest loop iteration (scan, then chooser), in whole seconds
MaxQuickPolls == 2     \* iterations of a call that may end within the second they began in

\* ---- program constants --------------------------------------------------
TimeoutSecs == 5       \* Duration::from_secs(5)

\* Names and endpoints are opaque values compared by equality.
SubgraphName == {"a", "b"}
Url == {"u1", "u2"}
NoUrl == "none"
NoName == "none"
Char == {" ", "l", "x"}
Commands == UNION {[1..k -> Char] : k \in 0..MaxLen}
FindCommands == UNION {[1..k -> Char] : k \in 0..MaxFindLen}

\* Error kinds, one per message of the source.
Ok == "Ok"
DuplicateTask == "DuplicateTask"            \* "... already has a running process"
EmptyCommand == "EmptyCommand"              \* "the command you passed is empty"
ExecutableNotFound == "ExecutableNotFound"  \* "{} is not installed on this machine"
SpawnFailure == "SpawnFailure"              \* "could not spawn child process"
DiscoveryTimeout == "DiscoveryTimeout"      \* "could not find GraphQL endpoint after 5 seconds"

VARIABLES
    tasks,       \* self.tasks: SubgraphName -> pid of the BackgroundTask's child
    system,      \* self.system: the cached process-table snapshot (set of pids)
    children,    \* ghost: pids of every process this runner has launched
    procTable,   \* the host's process table (set of pids)
    killed,      \* ghost: pids for which process.kill() was requested
    pc,          \* "idle" | "poll" (in the while loop) | "kill" (in the for loop) | "done" (returning)
                 \* | "dropped" (the runner is gone)
    call,        \* the running call: [op, name, cmd]; between calls, the op of the last one
    old,         \* ghost: [tasks, children, killed] when `call` began
    ret,         \* result of the last completed call: [kind, bin, url]
    argv,        \* ghost: executable and arguments of the process the call launched
    local_endpoints,        \* ghost: what get_all_local_endpoints() returned to the call
    existing_subgraphs,     \* ghost: the call's existing_subgraphs argument
    preexisting_endpoints,  \* baseline of spawn_and_find_url
    elapsed,     \* now.elapsed() in ticks
    pollStart,   \* elapsed when the last iteration (its scan) began
    polls,       \* scans made by the call
    selects,     \* chooser invocations made by the call
    graphql_endpoints,      \* result of the last scan
    choice,      \* outcome of the chooser in the last iteration: -2 not invoked, -1 Err, i Ok(i)
    todo,        \* names the for loop of kill_tasks has not visited yet
    log          \* events of the kill_tasks pass: <<"refresh", snapshot>>, <<"notify", n, ok>>,
                 \* <<"kill", pid, ok>>

vars == <<tasks, system, children, procTable, killed, pc, call, old, ret, argv,
          local_endpoints, existing_subgraphs, preexisting_endpoints, elapsed, pollStart, polls, selects,
          graphql_endpoints, choice, todo, log>>

discoveryVars == <<local_endpoints, existing_subgraphs, preexisting_endpoints, elapsed, pollStart, polls, selects,
                   graphql_endpoints, choice>>

\* ---- pure helpers -------------------------------------------------------

HasSpace(s) == \E i \in 1..Len(s) : s[i] = " "
FirstSpace(s) == CHOOSE i \in 1..Len(s) : s[i] = " " /\ \A j \in 1..(i-1) : s[j] # " "

\* command.split(' '): the pieces between single spaces; "" yields [""].
RECURSIVE split(_)
split(s) ==
    IF ~HasSpace(s) THEN <<s>>
    ELSE <<SubSeq(s, 1, FirstSpace(s) - 1)>> \o split(SubSeq(s, FirstSpace(s) + 1, Len(s)))

\* which::which(bin).is_ok(): the host has one runnable binary, "l".
which(bin) == bin = <<"l">>

\* ---- CommandRunner::spawn -----------------------------------------------

\* A duplicate check that never finds the name.
M_IsDuplicate(ts, n) == FALSE

\* for existing_name in self.tasks.keys() { if &subgraph_name == existing_name ... }
IsDuplicate(ts, n) == n \in DOMAIN ts

\* match args.len() { 0 => Err, 1 => Ok((args[0], [])), _ => Ok((args[0], args[1..])) }
BinAndArgs(args) ==
    IF Len(args) = 0 THEN [ok |-> FALSE, bin |-> <<>>, args |-> <<>>]
    ELSE [ok |-> TRUE, bin |-> args[1], args |-> SubSeq(args, 2, Len(args))]

\* A launch whose task is never put into the registry.
M_Insert(ts, n, pid) == ts

\* self.tasks.insert(subgraph_name, BackgroundTask::new(command)?)
Insert(ts, n, pid) == [m \in DOMAIN ts \cup {n} |-> IF m = n THEN pid ELSE ts[m]]

\* A spawn that registers the name before it has resolved the executable.
M_spawn(ts, n, cmd, osOk, pid) ==
    LET ba == BinAndArgs(split(cmd))
        err(kind, bin, reg) == [kind |-> kind, bin |-> bin, args |-> <<>>, tasks |-> reg,
                                launched |-> FALSE]
    IN  IF IsDuplicate(ts, n) THEN err(DuplicateTask, <<>>, ts)
        ELSE IF ~ba.ok THEN err(EmptyCommand, <<>>, ts)
        ELSE IF ~which(ba.bin) THEN err(ExecutableNotFound, ba.bin, Insert(ts, n, pid))
        ELSE IF ~osOk THEN err(SpawnFailure, <<>>, Insert(ts, n, pid))
        ELSE [kind |-> Ok, bin |-> ba.bin, args |-> ba.args, tasks |-> Insert(ts, n, pid),
              launched |-> TRUE]

\* The whole of spawn: osOk is whether command.spawn() of BackgroundTask::new
\* succeeds, pid the identifier the OS gives the child.
spawn(ts, n, cmd, osOk, pid) ==
    LET ba == BinAndArgs(split(cmd))
        err(kind, bin) == [kind |-> kind, bin |-> bin, args |-> <<>>, tasks |-> ts,
                           launched |-> FALSE]
    IN  IF IsDuplicate(ts, n) THEN err(DuplicateTask, <<>>)
        ELSE IF ~ba.ok THEN err(EmptyCommand, <<>>)
        ELSE IF ~which(ba.bin) THEN err(ExecutableNotFound, ba.bin)
        ELSE IF ~osOk THEN err(SpawnFailure, <<>>)
        ELSE [kind |-> Ok, bin |-> ba.bin, args |-> ba.args, tasks |-> Insert(ts, n, pid),
              launched |-> TRUE]

NextPid == Cardinality(children) + 1

\* Command::new(bin) with command.args(args), as the launched process sees it.
Argv(r) == IF r.launched THEN <<r.bin>> \o r.args ELSE <<>>

\* Whether spawn gets as far as BackgroundTask::new, where alone osOk is read.
ReachesLaunch(ts, n, cmd) == spawn(ts, n, cmd, TRUE, 0).launched

Init ==
    /\ tasks = << >>
    /\ system = {}
    /\ children = {}
    /\ procTable = {}
    /\ killed = {}
    /\ pc = "idle"
    /\ call = [op |-> "new", name |-> NoName, cmd |-> <<>>]
    /\ old = [tasks |-> << >>, children |-> {}, killed |-> {}]
    /\ ret = [kind |-> Ok, bin |-> <<>>, url |-> NoUrl]
    /\ argv = <<>>
    /\ local_endpoints = {}
    /\ existing_subgraphs = {}
    /\ preexisting_endpoints = {}
    /\ elapsed = 0
    /\ pollStart = 0
    /\ polls = 0
    /\ selects = 0
    /\ graphql_endpoints = <<>>
    /\ choice = -2
    /\ todo = {}
    /\ log = <<>>

\* What every call does on entry: remember the caller-visible state.
Enter(op, n, cmd) ==
    /\ pc = "idle"
    /\ call' = [op |-> op, name |-> n, cmd |-> cmd]
    /\ old' = [tasks |-> tasks, children |-> children, killed |-> killed]

ResetDiscovery ==
    /\ local_endpoints' = {}
    /\ existing_subgraphs' = {}
    /\ preexisting_endpoints' = {}
    /\ elapsed' = 0
    /\ pollStart' = 0
    /\ polls' = 0
    /\ selects' = 0
    /\ graphql_endpoints' = <<>>
    /\ choice' = -2

Spawn(n, cmd, osOk) ==
    LET r == spawn(tasks, n, cmd, osOk, NextPid) IN
    /\ Enter("spawn", n, cmd)
    /\ osOk \/ ReachesLaunch(tasks, n, cmd)
    /\ tasks' = r.tasks
    /\ children' = IF r.launched THEN children \cup {NextPid} ELSE children
    /\ procTable' = IF r.launched THEN procTable \cup {NextPid} ELSE procTable
    /\ ret' = [kind |-> r.kind, bin |-> r.bin, url |-> NoUrl]
    /\ argv' = Argv(r)
    /\ pc' = "done"
    /\ ResetDiscovery
    /\ todo' = {}
    /\ log' = <<>>
    /\ UNCHANGED <<system, killed>>

\* ---- CommandRunner::spawn_and_find_url ----------------------------------

\* A loop condition that forgets the endpoint it has found.
M_LoopContinues(found, t) == t < TimeoutSecs

\* A deadline test that lets one more iteration start at exactly 5 seconds.
M_LoopContinuesLate(found, t) == found = NoUrl /\ t <= TimeoutSecs

\* A deadline one second short.
M_LoopContinuesEarly(found, t) == found = NoUrl /\ t < TimeoutSecs - 1

\* while new_graphql_endpoint.is_none() && now.elapsed() < Duration::from_secs(5)
LoopContinues(found, t) == found = NoUrl /\ t < TimeoutSecs

\* A selection that always takes the default item.
M_Candidate(eps, i) == eps[1]

\* graphql_endpoints[endpoint_index].clone() (endpoint_index counts from 0)
Candidate(eps, i) == eps[i + 1]

\* A chooser failure that falls back to the default item (unwrap_or(0)).
M_Resolve(eps, sel) ==
    IF Len(eps) = 0 THEN NoUrl
    ELSE IF sel >= 0 THEN Candidate(eps, sel)
    ELSE Candidate(eps, 0)

\* match graphql_endpoints.len() { 0 => {}, 1 => Some([0]), _ => Select ... }
\* sel is the chooser's outcome: -1 for Err, an index for Ok.
Resolve(eps, sel) ==
    IF Len(eps) = 0 THEN NoUrl
    ELSE IF Len(eps) = 1 THEN Candidate(eps, 0)
    ELSE IF sel >= 0 THEN Candidate(eps, sel)
    ELSE NoUrl

\* The arm of the match that runs Select::new()...interact()
InvokesSelect(eps) == Len(eps) >= 2

\* if let Some(graphql_endpoint) = new_graphql_endpoint { Ok } else { Err }
Returned(found) ==
    IF found # NoUrl THEN [kind |-> Ok, bin |-> <<>>, url |-> found]
    ELSE [kind |-> DiscoveryTimeout, bin |-> <<>>, url |-> NoUrl]

\* get_all_local_graphql_endpoints_except(client, &preexisting_endpoints): any
\* sequence of distinct endpoints outside the baseline.
ScanResults(baseline) ==
    LET free == Url \ baseline IN
    {s \in UNION {[1..k -> free] : k \in 0..Cardinality(free)} :
        \A i, j \in 1..Len(s) : i # j => s[i] # s[j]}

\* A baseline that leaves out the caller's known endpoints.
M_Baseline(local, existing) == local

\* preexisting_endpoints = get_all_local_endpoints(), extended by existing_subgraphs
Baseline(local, existing) == local \cup existing

\* An error of spawn that is dropped instead of returned.
M_Propagates(kind) == FALSE

\* self.spawn(subgraph_name, command)?
Propagates(kind) == kind # Ok

\* Lines 72-77: baseline, spawn, start the clock, first test of the loop condition.
SpawnAndFindUrl(n, cmd, osOk, local, existing) ==
    LET r == spawn(tasks, n, cmd, osOk, NextPid) IN
    /\ Enter("spawn_and_find_url", n, cmd)
    /\ osOk \/ ReachesLaunch(tasks, n, cmd)
    /\ tasks' = r.tasks
    /\ children' = IF r.launched THEN children \cup {NextPid} ELSE children
    /\ procTable' = IF r.launched THEN procTable \cup {NextPid} ELSE procTable
    /\ argv' = Argv(r)
    /\ local_endpoints' = local
    /\ existing_subgraphs' = existing
    /\ preexisting_endpoints' = Baseline(local, existing)
    /\ elapsed' = 0
    /\ pollStart' = 0
    /\ polls' = 0
    /\ selects' = 0
    /\ graphql_endpoints' = <<>>
    /\ choice' = -2
    /\ IF Propagates(r.kind)
         THEN /\ ret' = [kind |-> r.kind, bin |-> r.bin, url |-> NoUrl]
              /\ pc' = "done"
         ELSE IF LoopContinues(NoUrl, 0)
         THEN /\ ret' = [kind |-> "running", bin |-> <<>>, url |-> NoUrl]
              /\ pc' = "poll"
         ELSE /\ ret' = Returned(NoUrl)
              /\ pc' = "done"
    /\ todo' = {}
    /\ log' = <<>>
    /\ UNCHANGED <<system, killed>>

\* One iteration of the while loop (lines 78-92), then the loop condition again
\* and, when it fails, the return (lines 94-100).  d is by how many whole
\* seconds the clock moved during the iteration: the scan and, when it runs,
\* the chooser.
Poll(eps, d, sel) ==
    LET found == Resolve(eps, sel)
        t == elapsed + d
    IN
    /\ pc = "poll"
    /\ d >= 1 \/ polls < MaxQuickPolls
    /\ InvokesSelect(eps) \/ sel = -1
    /\ sel < Len(eps)
    /\ graphql_endpoints' = eps
    /\ pollStart' = elapsed
    /\ polls' = polls + 1
    /\ selects' = IF InvokesSelect(eps) THEN selects + 1 ELSE selects
    /\ choice' = IF InvokesSelect(eps) THEN sel ELSE -2
    /\ elapsed' = t
    /\ IF LoopContinues(found, t)
         THEN /\ pc' = "poll"
              /\ ret' = ret
         ELSE /\ pc' = "done"
              /\ ret' = Returned(found)
    /\ UNCHANGED <<tasks, system, children, procTable, killed, call, old, argv,
                   local_endpoints, existing_subgraphs, preexisting_endpoints, todo, log>>

\* ---- CommandRunner::kill_tasks ------------------------------------------

\* An emptiness test that always enters the teardown branch.
M_IsEmpty(ts) == FALSE

\* if !self.tasks.is_empty()
IsEmpty(ts) == DOMAIN ts = {}

\* A loop that a failed notification ends (`?` in place of `let _ =`).
M_Remaining(rest, n, nOk, kOk) == IF nOk THEN rest \ {n} ELSE {}

\* What is left of `for (subgraph_name, background_task) in &self.tasks` after
\* the iteration for n, whose notification and kill request ended nOk and kOk.
Remaining(rest, n, nOk, kOk) == rest \ {n}

\* self.system.process(background_task.pid()) is Some
InSnapshot(snapshot, pid) == pid \in snapshot

\* A refresh that is left out: the snapshot stays what it was.
M_Refreshed(snapshot, table) == snapshot

\* self.system.refresh_all(): the snapshot becomes the host's process table.
Refreshed(snapshot, table) == table

\* A snapshot that is fetched again for every task.
M_LoopSnapshot(snapshot, table) == table

\* The snapshot an iteration of the for loop looks the pid up in: the loop
\* does not refresh self.system.
LoopSnapshot(snapshot, table) == snapshot

\* A loop that takes the visited task out of the registry.
M_Retained(ts, n) == [m \in DOMAIN ts \ {n} |-> ts[m]]

\* The registry after the iteration for n: the loop borrows &self.tasks and
\* removes nothing.
Retained(ts, n) == ts

\* The body of kill_tasks up to the for loop: nothing on an empty registry, else
\* refresh_all() and the loop.  op is "kill_tasks" for the caller's call and
\* "drop" for the call made by Drop::drop.
Teardown(op) ==
    /\ Enter(op, NoName, <<>>)
    /\ ret' = [kind |-> Ok, bin |-> <<>>, url |-> NoUrl]
    /\ argv' = <<>>
    /\ ResetDiscovery
    /\ IF IsEmpty(tasks)
         THEN /\ pc' = "done"
              /\ log' = <<>>
              /\ todo' = {}
              /\ system' = system
         ELSE /\ pc' = "kill"
              /\ system' = Refreshed(system, procTable)
              /\ log' = << <<"refresh", system'>> >>
              /\ todo' = DOMAIN tasks
    /\ UNCHANGED <<tasks, children, procTable, killed>>

\* pub fn kill_tasks(&mut self)
KillTasks == Teardown("kill_tasks")

\* impl Drop for CommandRunner: drop calls self.kill_tasks(); the runner is
\* dropped by its owner, so never while one of its methods runs.
Drop == Teardown("drop")

\* One iteration of the for loop (lines 108-121) for task n; the HashMap's
\* iteration order is arbitrary.
KillStep(n, nOk, kOk) ==
    LET pid == tasks[n]
        snapshot == LoopSnapshot(system, procTable)
        found == InSnapshot(snapshot, pid)
    IN
    /\ pc = "kill"
    /\ n \in todo
    /\ found \/ kOk
    /\ log' = log \o << <<"notify", n, nOk>> >> \o
                     (IF found THEN << <<"kill", pid, kOk>> >> ELSE <<>>)
    /\ killed' = IF found THEN killed \cup {pid} ELSE killed
    /\ todo' = Remaining(todo, n, nOk, kOk)
    /\ pc' = IF todo' = {} THEN "done" ELSE "kill"
    /\ system' = snapshot
    /\ tasks' = Retained(tasks, n)
    /\ UNCHANGED <<children, procTable, call, old, ret, argv>>
    /\ UNCHANGED discoveryVars

\* ---- the caller ---------------------------------------------------------

\* The call returns to the caller: its frame (arguments, locals, result) is gone,
\* the runner's fields stay.  After drop there is no runner to call.
Return ==
    /\ pc = "done"
    /\ pc' = IF call.op = "drop" THEN "dropped" ELSE "idle"
    /\ call' = [op |-> call.op, name |-> NoName, cmd |-> <<>>]
    /\ old' = [tasks |-> << >>, children |-> {}, killed |-> {}]
    /\ ret' = [kind |-> Ok, bin |-> <<>>, url |-> NoUrl]
    /\ argv' = <<>>
    /\ ResetDiscovery
    /\ todo' = {}
    /\ log' = <<>>
    /\ UNCHANGED <<tasks, system, children, procTable, killed>>

\* ---- the host -----------------------------------------------------------

\* A child leaves the host's process table (it exited and was reaped).
ProcExit(p) ==
    /\ p \in procTable
    /\ procTable' = procTable \ {p}
    /\ UNCHANGED <<tasks, system, children, killed, pc, call, old, ret, argv, todo, log>>
    /\ UNCHANGED discoveryVars

Next ==
    \/ \E n \in SubgraphName, cmd \in Commands, osOk \in BOOLEAN : Spawn(n, cmd, osOk)
    \/ \E n \in SubgraphName, cmd \in FindCommands, osOk \in BOOLEAN,
          local \in SUBSET Url, existing \in {{}, {"u2"}} :
            SpawnAndFindUrl(n, cmd, osOk, local, existing)
    \/ \E eps \in ScanResults(preexisting_endpoints), d \in 0..MaxIterSecs,
          sel \in -1..(Cardinality(Url) - 1) :
            Poll(eps, d, sel)
    \/ KillTasks
    \/ Drop
    \/ Return
    \/ \E n \in SubgraphName, nOk \in BOOLEAN, kOk \in BOOLEAN : KillStep(n, nOk, kOk)
    \/ \E p \in procTable : ProcExit(p)

Spec == Init /\ [][Next]_vars

\* An iteration of the while loop, whatever the scan, the clock and the chooser do.
PollStep ==
    \E eps \in ScanResults(preexisting_endpoints), d \in 0..MaxIterSecs,
       sel \in -1..(Cardinality(Url) - 1) :
        Poll(eps, d, sel)

\* The thread inside the while loop keeps running: an iteration that can be
\* made is made.
FairSpec == Spec /\ WF_vars(PollStep)

\* ---- properties ---------------------------------------------------------

SpawnDone == pc = "done" /\ call.op = "spawn"

\* A command line of spaces only (the empty one included).
AllSpaces(cmd) == \A i \in 1..Len(cmd) : cmd[i] = " "

\* The whitespace-separated tokens of a command line: its non-empty pieces.
Tokens(cmd) == SelectSeq(split(cmd), LAMBDA piece : piece # <<>>)

\* C1: a spawn under a name the registry already holds fails with DuplicateTask,
\* launches no process and leaves the registry as it was (the entry still
\* points at the first task).
C1_DuplicateSpawn ==
    (SpawnDone /\ call.name \in DOMAIN old.tasks) =>
        /\ ret.kind = DuplicateTask
        /\ children = old.children
        /\ tasks = old.tasks

\* A second spawn of a registered name, with a command line that would launch.
C1_Witness ==
    /\ SpawnDone
    /\ call.name \in DOMAIN old.tasks
    /\ which(split(call.cmd)[1])
    /\ ret.kind = DuplicateTask
    /\ tasks[call.name] \in old.children

\* C2: spawn of an unregistered name with an empty or all-spaces command line
\* fails with EmptyCommand and launches no process.
C2_EmptyCommand ==
    (SpawnDone /\ call.name \notin DOMAIN old.tasks /\ AllSpaces(call.cmd)) =>
        /\ ret.kind = EmptyCommand
        /\ children = old.children

\* C3: spawn of an unregistered name with a command line whose executable
\* token (its first whitespace-separated token) does not resolve fails with
\* ExecutableNotFound naming that token, launches no process and registers
\* nothing.
C3_ExecutableNotFound ==
    (/\ SpawnDone
     /\ call.name \notin DOMAIN old.tasks
     /\ Tokens(call.cmd) # <<>>
     /\ ~which(Tokens(call.cmd)[1])) =>
        /\ ret.kind = ExecutableNotFound
        /\ ret.bin = Tokens(call.cmd)[1]
        /\ children = old.children
        /\ call.name \notin DOMAIN tasks


FindDone == pc = "done" /\ call.op = "spawn_and_find_url"

\* The call polled, the chooser never ran and the last scan found nothing: as a
\* single candidate ends the loop, every scan of the call found nothing.
ScannerSilent == polls >= 1 /\ selects = 0 /\ Len(graphql_endpoints) = 0

\* C4 (as claimed): with a scanner that reports nothing on every poll the call
\* fails with DiscoveryTimeout at least 5 and less than 6 seconds after polling
\* began.
C4_TimeoutWithinSixSeconds ==
    (FindDone /\ ScannerSilent) =>
        /\ ret.kind = DiscoveryTimeout
        /\ elapsed >= TimeoutSecs
        /\ elapsed < TimeoutSecs + 1

\* C4 (amended): with a scanner that reports nothing on every poll the call
\* fails with DiscoveryTimeout at least 5 seconds after polling began, and its
\* last scan began before 5 seconds had elapsed: it overruns the 5 seconds by
\* less than the time that last scan took.
C4_TimeoutAfterFiveSeconds ==
    (FindDone /\ ScannerSilent) =>
        /\ ret.kind = DiscoveryTimeout
        /\ elapsed >= TimeoutSecs
        /\ pollStart < TimeoutSecs

\* A silent scanner whose last scan ran over the deadline.
C4_Witness ==
    /\ FindDone
    /\ ScannerSilent
    /\ ret.kind = DiscoveryTimeout
    /\ pollStart = TimeoutSecs - 1
    /\ elapsed > TimeoutSecs

\* C5: when the call returns DiscoveryTimeout the task it spawned is in the
\* registry, and the call has requested no kill.
C5_TimeoutKeepsTask ==
    (FindDone /\ ret.kind = DiscoveryTimeout) =>
        /\ call.name \in DOMAIN tasks
        /\ tasks[call.name] \in children \ old.children
        /\ tasks[call.name] \notin killed
        /\ killed = old.killed

\* A timeout of a call made while another task was registered.
C5_Witness ==
    /\ FindDone
    /\ ret.kind = DiscoveryTimeout
    /\ DOMAIN old.tasks # {}
    /\ DOMAIN tasks = DOMAIN old.tasks \cup {call.name}
    /\ tasks[call.name] \in procTable

\* C6: when the first poll reports exactly one endpoint the call is already
\* returning it: no chooser was invoked and the loop is left, so no further
\* poll follows.
C6_SingleEndpoint ==
    (call.op = "spawn_and_find_url" /\ polls = 1 /\ Len(graphql_endpoints) = 1) =>
        /\ pc = "done"
        /\ ret.kind = Ok
        /\ ret.url = graphql_endpoints[1]
        /\ selects = 0

\* A first poll that found one endpoint, against a non-empty baseline.
C6_Witness ==
    /\ FindDone
    /\ polls = 1
    /\ Len(graphql_endpoints) = 1
    /\ preexisting_endpoints # {}
    /\ ret.url = graphql_endpoints[1]

\* C7: when a poll reports two or more candidates and the chooser succeeds with
\* index i, the call returns the i-th candidate (from 0) of that poll and the
\* loop is left.
C7_ChooserIndex ==
    (call.op = "spawn_and_find_url" /\ Len(graphql_endpoints) >= 2 /\ choice >= 0) =>
        /\ pc = "done"
        /\ ret.kind = Ok
        /\ ret.url = graphql_endpoints[choice + 1]

\* The chooser picked the second of two candidates, after an earlier poll.
C7_Witness ==
    /\ FindDone
    /\ polls >= 2
    /\ Len(graphql_endpoints) = 2
    /\ choice = 1
    /\ ret.url = graphql_endpoints[2]
    /\ ret.url # graphql_endpoints[1]

KillRunning == call.op = "kill_tasks" /\ pc \in {"kill", "done"}
KillDone == call.op = "kill_tasks" /\ pc = "done"

\* Positions in the log of the events about task n / process pid.
Notifies(n) == {i \in 1..Len(log) : log[i][1] = "notify" /\ log[i][2] = n}
Kills(pid) == {i \in 1..Len(log) : log[i][1] = "kill" /\ log[i][2] = pid}

\* C8: a kill_tasks() called when the last call was a kill_tasks() that has
\* returned does nothing: it returns at once with no refresh, no notification
\* and no kill request.
C8_SecondKillNoOp ==
    [][(pc = "idle" /\ call.op = "kill_tasks" /\ pc' # "idle" /\ call'.op = "kill_tasks")
        => (pc' = "done" /\ log' = <<>>)]_vars

\* C9: kill_tasks() on an empty registry returns normally having made no
\* notification, no refresh and no kill request.
C9_KillEmpty ==
    (KillRunning /\ DOMAIN old.tasks = {}) =>
        /\ pc = "done"
        /\ ret.kind = Ok
        /\ log = <<>>
        /\ killed = old.killed

\* kill_tasks() returned on a runner that never registered a task.
C9_Witness ==
    /\ KillDone
    /\ DOMAIN tasks = {}
    /\ log = <<>>

\* C10: when a kill_tasks() pass returns, every registered task has had exactly
\* one notification attempt, followed at once by a kill request when its pid
\* is in the snapshot and by none when it is not, whatever the outcomes were;
\* the pass returns normally.
C10_EveryTaskTornDown ==
    KillDone =>
        /\ ret.kind = Ok
        /\ \A n \in DOMAIN tasks :
            /\ Cardinality(Notifies(n)) = 1
            /\ IF tasks[n] \in system
                 THEN Kills(tasks[n]) = {i + 1 : i \in Notifies(n)}
                 ELSE Kills(tasks[n]) = {}

\* The first task's notification failed and its process was not in the
\* snapshot; the second task was notified and its kill request failed.
C10_Witness ==
    /\ KillDone
    /\ Len(log) = 4
    /\ log[2][1] = "notify" /\ log[2][3] = FALSE
    /\ tasks[log[2][2]] \notin system
    /\ log[3][1] = "notify"
    /\ log[4] = <<"kill", tasks[log[3][2]], FALSE>>


Range(ts) == {ts[n] : n \in DOMAIN ts}

\* C11: when the runner has been dropped, whatever was called before, every
\* process it launched that is still in the process table has had a kill
\* request: in the teardown pass drop made, and so ever.
C11_DropKillsChildren ==
    /\ (call.op = "drop" /\ pc = "done") =>
            \A p \in children \cap procTable : Kills(p) # {}
    /\ (call.op = "drop" /\ pc \in {"done", "dropped"}) =>
            \A p \in children \cap procTable : p \in killed

\* A drop, with no kill_tasks() before it, of a runner with two live children.
C11_Witness ==
    /\ call.op = "drop"
    /\ pc = "done"
    /\ old.killed = {}
    /\ Cardinality(children \cap procTable) = 2
    /\ children \subseteq killed

FindRunning == call.op = "spawn_and_find_url" /\ pc \in {"poll", "done"}

\* C12: when the spawn inside spawn_and_find_url fails (nothing was launched),
\* the call is returning the error of spawn, no scan and no chooser ran and no
\* time has passed.
C12_SpawnErrorPropagates ==
    LET e == spawn(old.tasks, call.name, call.cmd, TRUE, 0).kind IN
    (FindRunning /\ argv = <<>>) =>
        /\ pc = "done"
        /\ ret.kind \in {DuplicateTask, EmptyCommand, ExecutableNotFound, SpawnFailure}
        /\ ret.kind = (IF e # Ok THEN e ELSE SpawnFailure)
        /\ polls = 0
        /\ selects = 0
        /\ elapsed = 0

\* The duplicate error of spawn, returned by spawn_and_find_url.
C12_Witness ==
    /\ FindDone
    /\ call.name \in DOMAIN old.tasks
    /\ ret.kind = DuplicateTask
    /\ polls = 0

\* C13: after an iteration in which two or more candidates were reported and the
\* chooser failed, the call has returned no endpoint and no error of the
\* chooser: it is polling again when the deadline has not passed and returning
\* DiscoveryTimeout when it has; and a call that polls always comes to return.
C13_ChooserFailure ==
    /\ []((FindRunning /\ Len(graphql_endpoints) >= 2 /\ choice = -1) =>
            IF elapsed < TimeoutSecs
              THEN pc = "poll"
              ELSE pc = "done" /\ ret.kind = DiscoveryTimeout /\ ret.url = NoUrl)
    /\ ((pc = "poll") ~> (pc = "done"))

\* The chooser failed in every iteration of a call that has timed out.
C13_Witness ==
    /\ FindDone
    /\ polls >= 2
    /\ selects = polls
    /\ choice = -1
    /\ ret.kind = DiscoveryTimeout

\* C14: every process the runner has launched is held by the registry, each
\* under its own name: the registry's pids are exactly the launched ones, no
\* two names share one, a call that launched a process holds it under the
\* call's name, and no entry a call found is changed by it.
C14_LaunchedAreRegistered ==
    /\ Range(tasks) = children
    /\ Cardinality(DOMAIN tasks) = Cardinality(children)
    /\ (pc \in {"poll", "done"} /\ argv # <<>>) =>
            /\ call.name \in DOMAIN tasks
            /\ children \ old.children = {tasks[call.name]}
    /\ (pc \in {"poll", "kill", "done"}) =>
            \A n \in DOMAIN old.tasks : n \in DOMAIN tasks /\ tasks[n] = old.tasks[n]

\* A second process launched, by spawn_and_find_url, after a teardown pass.
C14_Witness ==
    /\ FindDone
    /\ argv # <<>>
    /\ Cardinality(children) = 2
    /\ old.killed # {}
    /\ tasks[call.name] = 2


\* The endpoint the last iteration resolved, NoUrl when it resolved none.
LastResolved ==
    IF Len(graphql_endpoints) = 1 THEN graphql_endpoints[1]
    ELSE IF Len(graphql_endpoints) >= 2 /\ choice >= 0 THEN graphql_endpoints[choice + 1]
    ELSE NoUrl

\* C15 (as claimed): once 5 seconds have elapsed the call has failed with
\* DiscoveryTimeout, and it returns an endpoint only while less than 5 seconds
\* have elapsed, however long a scan or a chooser interaction takes.
C15_DeadlineCutsResolution ==
    (FindRunning /\ polls >= 1) =>
        /\ (elapsed >= TimeoutSecs) => (pc = "done" /\ ret.kind = DiscoveryTimeout)
        /\ (pc = "done" /\ ret.kind = Ok) => elapsed < TimeoutSecs

\* C15 (amended): every iteration begins before 5 seconds have elapsed; the call
\* goes on polling only while no endpoint is resolved and less than 5 seconds
\* have elapsed; it fails with DiscoveryTimeout when an iteration ends at 5
\* seconds or later with no endpoint resolved, and it returns the endpoint an
\* iteration resolved, also when that iteration ended after the 5 seconds.
C15_DeadlineBetweenIterations ==
    (FindRunning /\ polls >= 1) =>
        /\ pollStart < TimeoutSecs
        /\ (pc = "poll") => (elapsed < TimeoutSecs /\ LastResolved = NoUrl)
        /\ (pc = "done") =>
            /\ ret.kind \in {Ok, DiscoveryTimeout}
            /\ (ret.kind = DiscoveryTimeout) <=> (LastResolved = NoUrl)
            /\ (ret.kind = DiscoveryTimeout) => (elapsed >= TimeoutSecs)
            /\ ret.url = LastResolved

\* An endpoint picked in the chooser after the deadline, and returned.
C15_Witness ==
    /\ FindDone
    /\ ret.kind = Ok
    /\ choice >= 0
    /\ pollStart < TimeoutSecs
    /\ elapsed > TimeoutSecs

\* C16: throughout the call the baseline is the union of the local endpoints
\* found on entry and the caller's known endpoints, also when the spawn failed;
\* no scan reports, and the call never returns, an endpoint of the baseline.
C16_BaselineFixed ==
    FindRunning =>
        /\ preexisting_endpoints = local_endpoints \cup existing_subgraphs
        /\ \A i \in 1..Len(graphql_endpoints) :
                graphql_endpoints[i] \notin preexisting_endpoints
        /\ (pc = "done" /\ ret.kind = Ok) =>
                /\ ret.url \notin local_endpoints
                /\ ret.url \notin existing_subgraphs

\* An endpoint returned, after more than one poll, against a baseline that the
\* caller's known endpoints alone make up.
C16_Witness ==
    /\ FindDone
    /\ ret.kind = Ok
    /\ polls >= 2
    /\ local_endpoints = {}
    /\ existing_subgraphs # {}

\* C17: spawn splits the command line on whitespace: whatever spaces it has,
\* the launched process gets exactly the non-empty tokens (executable first), and
\* an executable reported missing is the first non-empty token.
C17_WhitespaceSplit ==
    (SpawnDone /\ call.name \notin DOMAIN old.tasks /\ Tokens(call.cmd) # <<>>) =>
        /\ (argv # <<>>) => (argv = Tokens(call.cmd))
        /\ (ret.kind = ExecutableNotFound) => (ret.bin = Tokens(call.cmd)[1])
        /\ which(Tokens(call.cmd)[1]) => (ret.kind \in {Ok, SpawnFailure})

TeardownRunning == call.op \in {"kill_tasks", "drop"} /\ pc \in {"kill", "done"}

\* C18: in a teardown pass over a non-empty registry the only refresh is the
\* first event, the snapshot stays the one that refresh took, and every task
\* visited got its kill request exactly when its pid is in that snapshot.
C18_OneSnapshot ==
    (TeardownRunning /\ DOMAIN old.tasks # {}) =>
        /\ log[1][1] = "refresh"
        /\ \A i \in 2..Len(log) : log[i][1] # "refresh"
        /\ system = log[1][2]
        /\ \A n \in DOMAIN tasks \ todo :
                (Kills(tasks[n]) # {}) <=> (tasks[n] \in log[1][2])

\* A process that left the process table after the refresh and still got its
\* kill request, from the snapshot.
C18_Witness ==
    /\ call.op = "kill_tasks"
    /\ pc = "done"
    /\ Cardinality(DOMAIN tasks) = 2
    /\ \E p \in system \ procTable : Kills(p) # {}

SpawnFailed == ret.kind \in {DuplicateTask, EmptyCommand, ExecutableNotFound, SpawnFailure}

\* C19: when spawn (called directly or by spawn_and_find_url) has failed, the
\* registry and the set of launched processes are what they were; when it has
\* succeeded the registry has gained the one entry for the call's name, a new
\* process, and nothing else has changed.
C19_SpawnFrame ==
    (pc \in {"poll", "done"} /\ call.op \in {"spawn", "spawn_and_find_url"}) =>
        IF SpawnFailed
          THEN /\ tasks = old.tasks
               /\ children = old.children
               /\ procTable \subseteq old.children
               /\ argv = <<>>
          ELSE /\ call.name \notin DOMAIN old.tasks
               /\ DOMAIN tasks = DOMAIN old.tasks \cup {call.name}
               /\ \A m \in DOMAIN old.tasks : tasks[m] = old.tasks[m]
               /\ tasks[call.name] \notin old.children
               /\ children = old.children \cup {tasks[call.name]}

\* The launch failed (SpawnFailure) on a runner that holds another task.
C19_Witness ==
    /\ SpawnDone
    /\ ret.kind = SpawnFailure
    /\ DOMAIN old.tasks # {}
    /\ tasks = old.tasks

\* C20: a teardown pass leaves the registry as it found it, no call removes a
\* name, and spawn under a name whose process a teardown pass has killed
\* still fails with DuplicateTask.
C20_RegistryOnlyGrows ==
    /\ TeardownRunning => tasks = old.tasks
    /\ (pc \in {"poll", "kill", "done"}) => (DOMAIN old.tasks \subseteq DOMAIN tasks)
    /\ (SpawnDone /\ call.name \in DOMAIN old.tasks /\ old.tasks[call.name] \in old.killed) =>
            /\ ret.kind = DuplicateTask
            /\ tasks = old.tasks

\* spawn of a name whose process was killed and has left the process table.
C20_Witness ==
    /\ SpawnDone
    /\ call.name \in DOMAIN old.tasks
    /\ old.tasks[call.name] \in old.killed
    /\ old.tasks[call.name] \notin procTable
    /\ which(split(call.cmd)[1])
    /\ ret.kind = DuplicateTask

====
